---- MODULE Spec2Model ----
(***************************************************************************)
(* State-machine model of lib/zabbix.js, the StatsD backend that flushes   *)
(* counters, timers and gauges to Zabbix.                                  *)
(*                                                                         *)
(* Strings are sequences of one-character strings (fixed literals such as  *)
(* "[total]" or the process hostname are kept as one token), so that       *)
(* split, startsWith and replace are computed as the code computes them.   *)
(* JavaScript numbers are records [t, n, d]: t = "num" is the rational     *)
(* n / d (d > 0), t = "nan" is NaN and t = "undefined" is undefined.       *)
(***************************************************************************)
EXTENDS Integers, Sequences, FiniteSets, TLC

VARIABLES
  args,       \* arguments of the pure function under call (targetDecode, itemsForTimer)
  ret,        \* its result, "pending" before the call
  stats,      \* the module-level stats object
  now,        \* what tsNow() returns
  lastTs,     \* timestamp of the latest flush event (0 before the first)
  inflight,   \* completion callbacks constructed and not yet run
  call,       \* arguments of the latest flush, metrics as they were before it
  metrics,    \* the metrics object of the latest flush, as it is after it
  published,  \* what the latest flush handed to the publisher
  outcome,    \* how the latest flush ended
  newest,     \* latest timestamp among the flushes whose callback has run
  response,   \* the response the latest callback run received, and its flush
  written     \* what the latest status call wrote

vars == <<args, ret, stats, now, lastTs, inflight, call, metrics, published,
          outcome, newest, response, written>>

(***************************************************************************)
(* Bounds of the model.                                                    *)
(***************************************************************************)
MaxTail == 5        \* characters after the namespace word of a decoded name
MaxSamples == 3     \* samples of one timer
MaxVal == 3         \* largest timer sample
MaxTime == 3        \* largest clock reading and flush timestamp
MaxPerCat == 2      \* metrics per category of a snapshot

(***************************************************************************)
(* String primitives.                                                      *)
(***************************************************************************)
\* String.prototype.split(sep) for a one-character separator: the parts of
\* s from position i on, cur being the part under way.
RECURSIVE SplitFrom(_, _, _, _)
SplitFrom(s, sep, i, cur) ==
  IF i > Len(s) THEN <<cur>>
  ELSE IF s[i] = sep THEN <<cur>> \o SplitFrom(s, sep, i + 1, <<>>)
  ELSE SplitFrom(s, sep, i + 1, Append(cur, s[i]))

Split(s, sep) == SplitFrom(s, sep, 1, <<>>)

\* String.prototype.startsWith(p).
StartsWith(s, p) == Len(s) >= Len(p) /\ SubSeq(s, 1, Len(p)) = p

\* replace without the g flag: only the first occurrence is replaced.
ReplaceOnlyFirst(s, a, b) ==
  [i \in 1..Len(s) |-> IF s[i] = a /\ (\A j \in 1..(i - 1) : s[j] # a) THEN b ELSE s[i]]

\* String.prototype.replace(/a/g, b).
ReplaceAll(s, a, b) == [i \in 1..Len(s) |-> IF s[i] = a THEN b ELSE s[i]]

Logstash == <<"l", "o", "g", "s", "t", "a", "s", "h">>
Kamon == <<"k", "a", "m", "o", "n">>
Statsd == <<"s", "t", "a", "t", "s", "d">>
Dot == <<".">>

\* os.hostname(), one token.
hostname == <<"localhost">>

\* undefined, as a string value.
NoString == <<"undefined">>

\* !x for a string or undefined.
Falsy(s) == s = <<>> \/ s = NoString

\* A thrown exception in place of a return value.
Thrown == [ok |-> FALSE, host |-> NoString, key |-> NoString]

Target(h, k) == [ok |-> TRUE, host |-> h, key |-> k]

\* parts[i] of a destructuring assignment: undefined past the end.
Part(parts, i) == IF i <= Len(parts) THEN parts[i] ELSE NoString

targetDecode(stat) ==
  LET parts == Split(stat, ".")
      grammar1 == /\ (StartsWith(stat, Logstash \o Dot) \/ StartsWith(stat, Kamon \o Dot))
                  /\ Len(parts) = 3
      namespace == parts[1]
      byUnderscore == Split(stat, "_")
      host == IF grammar1
              THEN (IF namespace = Logstash \/ namespace = Kamon
                    THEN ReplaceAll(parts[2], "_", ".")
                    ELSE parts[2])
              ELSE IF StartsWith(stat, Statsd \o Dot) THEN hostname
              ELSE Part(byUnderscore, 1)
      key == IF grammar1
             THEN (IF namespace = Logstash THEN ReplaceAll(parts[3], "_", ".")
                   ELSE parts[3])
             ELSE IF StartsWith(stat, Statsd \o Dot) THEN stat
             ELSE Part(byUnderscore, 2)
  IN IF Falsy(host) \/ Falsy(key) THEN Thrown ELSE Target(host, key)

\* targetStatic.bind(undefined, config.zabbixTargetHostname)
targetStatic(host, stat) == Target(host, stat)

(***************************************************************************)
(* JavaScript numbers.                                                     *)
(***************************************************************************)
Num(n) == [t |-> "num", n |-> n, d |-> 1]
NaN == [t |-> "nan", n |-> 0, d |-> 1]
Undefined == [t |-> "undefined", n |-> 0, d |-> 1]

\* a / b for integers a >= 0 and b >= 0, where 0 / 0 is NaN (b = 0 < a does not occur).
Div(a, b) == IF b = 0 THEN NaN ELSE [t |-> "num", n |-> a, d |-> b]

\* x || 0
OrZero(x) == IF x.t # "num" \/ x.n = 0 THEN Num(0) ELSE x

\* Math.round(a / b) for b > 0: the nearest integer, halves towards +Infinity.
MathRound(a, b) == (2 * a + b) \div (2 * b)

\* Number.prototype.toString() of a non-negative integer.
RECURSIVE toString(_)
toString(n) ==
  LET digit == <<"0", "1", "2", "3", "4", "5", "6", "7", "8", "9">>[(n % 10) + 1]
  IN IF n < 10 THEN <<digit>> ELSE Append(toString(n \div 10), digit)

\* String.prototype.replace(a, b) with a string pattern: the first occurrence only.
ReplaceFirst(s, a, b) ==
  IF \E i \in 1..Len(s) : s[i] = a
  THEN LET first == CHOOSE i \in 1..Len(s) : s[i] = a /\ \A j \in 1..(i - 1) : s[j] # a
       IN [i \in 1..Len(s) |-> IF i = first THEN b ELSE s[i]]
  ELSE s

\* The array left in arrival order.
Unsorted(data) == data

\* Array.prototype.sort((a, b) => a - b) on numbers.
RECURSIVE Insert(_, _)
Insert(sorted, x) ==
  IF sorted = <<>> THEN <<x>>
  ELSE IF x < Head(sorted) THEN <<x>> \o sorted
  ELSE <<Head(sorted)>> \o Insert(Tail(sorted), x)

RECURSIVE Sort(_)
Sort(data) == IF data = <<>> THEN <<>> ELSE Insert(Sort(SubSeq(data, 1, Len(data) - 1)), data[Len(data)])

RECURSIVE Sum(_)
Sum(values) == IF values = <<>> THEN 0 ELSE Head(values) + Sum(Tail(values))

(***************************************************************************)
(* Publish options and the item generators.                                *)
(***************************************************************************)
\* An options object: vals maps the attributes it has to their values; an
\* undefined object has defined = FALSE.
NoSettings == [defined |-> FALSE, vals |-> <<>>]
Settings(vals) == [defined |-> TRUE, vals |-> vals]

readSetting(settings, settingName, defaultValue) ==
  IF ~settings.defined THEN defaultValue
  ELSE IF settingName \notin DOMAIN settings.vals THEN defaultValue
  ELSE settings.vals[settingName]

Item(host, key, value) == [host |-> host, key |-> key, value |-> value]

itemsForCounter(publishOpts, flushInterval, host, key, value) ==
  IF readSetting(publishOpts, "enabled", TRUE)
  THEN LET avg == Div(value * 1000, flushInterval)
       IN (IF readSetting(publishOpts, "send_total", TRUE)
           THEN <<Item(host, key \o <<"[total]">>, Num(value))>> ELSE <<>>)
          \o
          (IF readSetting(publishOpts, "send_avg", TRUE)
           THEN <<Item(host, key \o <<"[avg]">>, avg)>> ELSE <<>>)
  ELSE <<>>

itemsForGauge(publishOpts, host, key, value) ==
  IF readSetting(publishOpts, "enabled", TRUE)
  THEN <<Item(host, key, Num(value))>>
  ELSE <<>>

\* values[i], undefined outside the array.
At(values, i) == IF i \in 1..Len(values) THEN Num(values[i]) ELSE Undefined

\* A timer's value in the snapshot: an array of samples, or something that
\* has no sort method (array = FALSE).
Samples(v) == [array |-> TRUE, v |-> v]
NotAnArray == [array |-> FALSE, v |-> <<>>]

\* One iteration of percentiles.forEach: the items it pushes and the values
\* of mean and maxAtThreshold it leaves for the next iteration.
PercentileStep(sendMean, sendUpper, host, key, values, percentile, mean, maxAtThreshold) ==
  LET strPercentile == ReplaceFirst(toString(percentile), ".", "_")
      count == Len(values)
      thresholdIndex == MathRound((100 - percentile) * count, 100)
      numInThreshold == count - thresholdIndex
      percentValues == SubSeq(values, 1, numInThreshold)
      maxAt == IF count > 1 THEN At(percentValues, numInThreshold) ELSE maxAtThreshold
      mn == IF count > 1 THEN Div(Sum(percentValues), numInThreshold) ELSE mean
  IN [items |->
        (IF sendMean
         THEN <<Item(host, key \o <<"[mean][">> \o strPercentile \o <<"]">>, OrZero(mn))>>
         ELSE <<>>)
        \o
        (IF sendUpper
         THEN <<Item(host, key \o <<"[upper][">> \o strPercentile \o <<"]">>, OrZero(maxAt))>>
         ELSE <<>>),
      mean |-> mn,
      maxAtThreshold |-> maxAt]

RECURSIVE PercentileLoop(_, _, _, _, _, _, _, _)
PercentileLoop(sendMean, sendUpper, host, key, values, percentiles, mean, maxAtThreshold) ==
  IF percentiles = <<>> THEN <<>>
  ELSE LET step == PercentileStep(sendMean, sendUpper, host, key, values,
                                  Head(percentiles), mean, maxAtThreshold)
       IN step.items \o PercentileLoop(sendMean, sendUpper, host, key, values,
                                       Tail(percentiles), step.mean, step.maxAtThreshold)

\* itemsForTimer returns [threw, items, data]: data is the argument array as
\* the call leaves it (sort works in place).
itemsForTimer(publishOpts, percentiles, host, key, data) ==
  IF ~readSetting(publishOpts, "enabled", TRUE)
  THEN [threw |-> FALSE, items |-> <<>>, data |-> data]
  ELSE IF ~data.array
  THEN [threw |-> TRUE, items |-> <<>>, data |-> data]
  ELSE
    LET values == Sort(data.v)
        count == Len(values)
        min == At(values, 1)
        max == At(values, count)
        sendMeanPercentile == readSetting(publishOpts, "send_mean_percentile", TRUE)
        sendUpperPercentile == readSetting(publishOpts, "send_upper_percentile", TRUE)
        sendPercentile == sendMeanPercentile \/ sendUpperPercentile
    IN [threw |-> FALSE,
        items |->
          (IF readSetting(publishOpts, "send_lower", TRUE)
           THEN <<Item(host, key \o <<"[lower]">>, OrZero(min))>> ELSE <<>>)
          \o
          (IF readSetting(publishOpts, "send_upper", TRUE)
           THEN <<Item(host, key \o <<"[upper]">>, OrZero(max))>> ELSE <<>>)
          \o
          (IF readSetting(publishOpts, "send_count", TRUE)
           THEN <<Item(host, key \o <<"[count]">>, Num(count))>> ELSE <<>>)
          \o
          (IF sendPercentile
           THEN PercentileLoop(sendMeanPercentile, sendUpperPercentile, host, key,
                               values, percentiles, min, max)
           ELSE <<>>),
        data |-> Samples(values)]

(***************************************************************************)
(* flush: the synchronous part.                                            *)
(***************************************************************************)
\* The targetBuilder init chooses: targetStatic bound to the configured
\* hostname, or targetDecode.
StaticBuilder(host) == [static |-> TRUE, host |-> host]
DecodeBuilder == [static |-> FALSE, host |-> NoString]

targetBuilder(builder, stat) ==
  IF builder.static THEN targetStatic(builder.host, stat) ELSE targetDecode(stat)

\* The processor flush binds for a category of metrics.
counterProcessor(publishItems, flushInterval, host, key, value) ==
  [threw |-> FALSE,
   items |-> itemsForCounter(publishItems.counters, flushInterval, host, key, value),
   value |-> value]

timerProcessor(publishItems, pctThreshold, host, key, value) ==
  LET r == itemsForTimer(publishItems.timers, pctThreshold, host, key, value)
  IN [threw |-> r.threw, items |-> r.items, value |-> r.data]

guageProcessor(publishItems, host, key, value) ==
  [threw |-> FALSE,
   items |-> itemsForGauge(publishItems.guages, host, key, value),
   value |-> value]

\* processor(host, key, value) for the processor of a category.
processor(category, publishItems, flushInterval, pctThreshold, host, key, value) ==
  CASE category = "counters" ->
         counterProcessor(publishItems, flushInterval, host, key, value)
    [] category = "timers" ->
         timerProcessor(publishItems, pctThreshold, host, key, value)
    [] category = "gauges" ->
         guageProcessor(publishItems, host, key, value)

\* The try block of handle once the processor has run with result r.
Pushed(r) ==
  IF r.threw THEN [caught |-> TRUE, items |-> <<>>, value |-> r.value]
  ELSE [caught |-> FALSE, items |-> r.items, value |-> r.value]

\* The try block of handle once targetBuilder has run with result t.
Built(t, category, publishItems, flushInterval, pctThreshold, value) ==
  IF ~t.ok THEN [caught |-> TRUE, items |-> <<>>, value |-> value]
  ELSE Pushed(processor(category, publishItems, flushInterval, pctThreshold,
                        t.host, t.key, value))

\* handle(processor, stat, value): the items pushed to allItems, whether the
\* catch block ran, and the metric's value as the call leaves it.
handle(builder, category, publishItems, flushInterval, pctThreshold, stat, value) ==
  Built(targetBuilder(builder, stat), category, publishItems, flushInterval,
        pctThreshold, value)

\* One more iteration in front of the iterations rest: h is what handle did
\* for stat.
Iterated(stat, h, rest) ==
  [items |-> h.items \o rest.items,
   caught |-> (IF h.caught THEN 1 ELSE 0) + rest.caught,
   entries |-> <<[stat |-> stat, value |-> h.value]>> \o rest.entries]

\* The loop with the try around it instead of inside it: the first exception
\* caught ends the iteration of the category.
RECURSIVE ForEachUntilCaught(_, _, _, _, _, _)
ForEachUntilCaught(builder, category, publishItems, flushInterval, pctThreshold, entries) ==
  IF entries = <<>> THEN [items |-> <<>>, caught |-> 0, entries |-> <<>>]
  ELSE IF handle(builder, category, publishItems, flushInterval, pctThreshold,
                 Head(entries).stat, Head(entries).value).caught
  THEN [items |-> <<>>, caught |-> 1, entries |-> entries]
  ELSE Iterated(Head(entries).stat,
                handle(builder, category, publishItems, flushInterval, pctThreshold,
                       Head(entries).stat, Head(entries).value),
                ForEachUntilCaught(builder, category, publishItems, flushInterval,
                                   pctThreshold, Tail(entries)))

\* Object.keys(metrics[category]).forEach(stat => handle(...)): entries is
\* the category's mapping in key order.
RECURSIVE ForEach(_, _, _, _, _, _)
ForEach(builder, category, publishItems, flushInterval, pctThreshold, entries) ==
  IF entries = <<>> THEN [items |-> <<>>, caught |-> 0, entries |-> <<>>]
  ELSE Iterated(Head(entries).stat,
                handle(builder, category, publishItems, flushInterval, pctThreshold,
                       Head(entries).stat, Head(entries).value),
                ForEach(builder, category, publishItems, flushInterval, pctThreshold,
                        Tail(entries)))

\* What the three loops of flush leave, c, t and g being what each loop did:
\* allItems, the number of exceptions caught and the metrics object.
Collected(c, t, g, pctThreshold) ==
  [allItems |-> c.items \o t.items \o g.items,
   caught |-> c.caught + t.caught + g.caught,
   metrics |-> [counters |-> c.entries, timers |-> t.entries, gauges |-> g.entries,
                pctThreshold |-> pctThreshold]]

Collect(builder, publishItems, flushInterval, m) ==
  Collected(
    ForEach(builder, "counters", publishItems, flushInterval, m.pctThreshold, m.counters),
    ForEach(builder, "timers", publishItems, flushInterval, m.pctThreshold, m.timers),
    ForEach(builder, "gauges", publishItems, flushInterval, m.pctThreshold, m.gauges),
    m.pctThreshold)

\* The response handler flush passes to constructSender, closed over
\* timestamp, flushStart and allItems.
Callback(timestamp, flushStart, allItems) ==
  [timestamp |-> timestamp, flushStart |-> flushStart, length |-> Len(allItems)]

NotCalled == [called |-> FALSE, items |-> <<>>]

\* Submit with the sender's construction and the publisher inside a try that
\* swallows what they throw.
SubmitCatching(constructSender, publisher, timestamp, flushStart, done) ==
  /\ metrics' = done.metrics
  /\ stats' = [stats EXCEPT
                 !.last_exception = IF done.caught > 0 THEN now ELSE @,
                 !.flush_length = Len(done.allItems)]
  /\ outcome' = "returned"
  /\ published' = IF constructSender = "throws" THEN NotCalled
                  ELSE [called |-> TRUE, items |-> done.allItems]
  /\ inflight' = IF constructSender = "throws" \/ publisher = "throws" THEN inflight
                 ELSE inflight \cup {Callback(timestamp, flushStart, done.allItems)}

\* Submit recording the flush as done before the sender answers.
SubmitEager(constructSender, publisher, timestamp, flushStart, done) ==
  /\ metrics' = done.metrics
  /\ stats' = [stats EXCEPT
                 !.last_exception = IF done.caught > 0 THEN now ELSE @,
                 !.last_flush = timestamp,
                 !.flush_length = Len(done.allItems)]
  /\ IF constructSender = "throws"
     THEN /\ outcome' = "constructSender threw"
          /\ published' = NotCalled
          /\ inflight' = inflight
     ELSE /\ published' = [called |-> TRUE, items |-> done.allItems]
          /\ IF publisher = "throws"
             THEN /\ outcome' = "publisher threw"
                  /\ inflight' = inflight
             ELSE /\ outcome' = "returned"
                  /\ inflight' = inflight \cup
                                   {Callback(timestamp, flushStart, done.allItems)}

\* flush from line 342 on, done being what the loops left. constructSender
\* and publisher are "ok" or "throws".
Submit(constructSender, publisher, timestamp, flushStart, done) ==
  /\ metrics' = done.metrics
  /\ stats' = [stats EXCEPT
                 !.last_exception = IF done.caught > 0 THEN now ELSE @,
                 !.flush_length = Len(done.allItems)]
  /\ IF constructSender = "throws"
     THEN /\ outcome' = "constructSender threw"
          /\ published' = NotCalled
          /\ inflight' = inflight
     ELSE /\ published' = [called |-> TRUE, items |-> done.allItems]
          /\ IF publisher = "throws"
             THEN /\ outcome' = "publisher threw"
                  /\ inflight' = inflight
             ELSE /\ outcome' = "returned"
                  /\ inflight' = inflight \cup
                                   {Callback(timestamp, flushStart, done.allItems)}

\* flush(targetBuilder, constructSender, publisher, publishItems, flushInterval,
\* timestamp, metrics). The call is one turn of the event loop: tsNow()
\* reads now throughout.
flush(builder, constructSender, publisher, publishItems, flushInterval, timestamp, m) ==
  /\ call' = [targetBuilder |-> builder, constructSender |-> constructSender,
              publisher |-> publisher, publishItems |-> publishItems,
              flushInterval |-> flushInterval, timestamp |-> timestamp,
              metrics |-> m]
  /\ lastTs' = timestamp
  /\ Submit(constructSender, publisher, timestamp, now,
            Collect(builder, publishItems, flushInterval, m))
  /\ UNCHANGED <<args, ret, now, newest, response, written>>

(***************************************************************************)
(* The completion callback, status and the clock.                          *)
(***************************************************************************)
Max(a, b) == IF a >= b THEN a ELSE b

\* The response handler taking the timestamp whatever the response says.
OnResponseAlways(cb, errors, total) ==
  [stats EXCEPT !.last_exception = IF errors = "some" THEN now ELSE @,
                !.last_flush = cb.timestamp,
                !.flush_time = cb.flushStart - cb.timestamp,
                !.flush_length = Max(total, cb.length)]

\* The response handler clearing last_flush on an error response.
OnResponseClearing(cb, errors, total) ==
  [stats EXCEPT !.last_exception = IF errors = "some" THEN now ELSE @,
                !.last_flush = IF errors = "some" THEN 0 ELSE cb.timestamp,
                !.flush_time = IF errors = "some" THEN @ ELSE cb.flushStart - cb.timestamp,
                !.flush_length = Max(total, cb.length)]

\* The body of the response handler. errors is "absent", "empty" or "some";
\* total is response.total || 0.
OnResponse(cb, errors, total) ==
  LET settled == IF errors = "some"
                 THEN [stats EXCEPT !.last_exception = now]
                 ELSE [stats EXCEPT !.last_flush = cb.timestamp,
                                    !.flush_time = cb.flushStart - cb.timestamp]
  IN [settled EXCEPT !.flush_length = Max(total, cb.length)]

Complete(cb, errors, total) ==
  /\ cb \in inflight
  /\ stats' = OnResponse(cb, errors, total)
  /\ inflight' = inflight \ {cb}
  /\ newest' = Max(newest, cb.timestamp)
  /\ response' = [timestamp |-> cb.timestamp, errors |-> errors, total |-> total]
  /\ UNCHANGED <<args, ret, now, lastTs, call, metrics, published, outcome, written>>

\* Object.keys(stats) after init.
StatNames == <<"last_flush", "last_exception", "flush_time", "flush_length">>

\* status(writeCb): written is what writeCb received.
status ==
  /\ written' = [i \in 1..Len(StatNames) |-> <<"zabbix", StatNames[i], stats[StatNames[i]]>>]
  /\ UNCHANGED <<args, ret, stats, now, lastTs, inflight, call, metrics, published,
                 outcome, newest, response>>

Tick ==
  /\ now < MaxTime
  /\ now' = now + 1
  /\ UNCHANGED <<args, ret, stats, lastTs, inflight, call, metrics, published, outcome,
                 newest, response, written>>

(***************************************************************************)
(* Inputs.                                                                 *)
(***************************************************************************)
\* Categories of a snapshot: at most maxLen metrics with distinct names.
Entries(names, values, maxLen) ==
  UNION {{e \in [1..n -> [stat : names, value : values]] :
            \A i, j \in 1..n : i # j => e[i].stat # e[j].stat} : n \in 0..maxLen}

\* "a_b" decodes to host a, key b; "ab" has no separator and fails to decode.
MetricNames == {<<"a", "_", "b">>, <<"a", "b">>}

TimerValues == {Samples(<<2, 1>>), Samples(<<>>), NotAnArray}

SnapshotsOf(maxLen, timerValues) ==
  [counters : Entries(MetricNames, {3}, maxLen),
   timers : Entries(MetricNames, timerValues, maxLen),
   gauges : Entries(MetricNames, {5}, maxLen),
   pctThreshold : {<<90>>}]

\* The snapshots of the flush events of Spec: at most one counter.
EventSnapshots ==
  [counters : Entries(MetricNames, {3}, 1), timers : {<<>>}, gauges : {<<>>},
   pctThreshold : {<<90>>}]

Toggle == {NoSettings, Settings([enabled |-> FALSE])}

\* config.zabbixPublishItems || {}, with the attribute flush reads for
\* gauges (guages) next to the documented one (gauges).
PublishItems == [counters : Toggle, timers : Toggle, gauges : Toggle, guages : Toggle]

AllEnabled ==
  [counters |-> NoSettings, timers |-> NoSettings, gauges |-> NoSettings,
   guages |-> NoSettings]

Builders == {DecodeBuilder, StaticBuilder(<<"z">>)}

Behaviours == {"ok", "throws"}

Errors == {"absent", "empty", "some"}

NoCall == [timestamp |-> 0]
NoResponse == [timestamp |-> 0, errors |-> "absent", total |-> 0]
NoMetrics == [counters |-> <<>>, timers |-> <<>>, gauges |-> <<>>, pctThreshold |-> <<>>]

\* The state init leaves.
InitStats ==
  [last_flush |-> 0, last_exception |-> 0, flush_time |-> 0, flush_length |-> 0]

InitFlushState ==
  /\ stats = InitStats
  /\ now = 1
  /\ lastTs = 0
  /\ inflight = {}
  /\ call = NoCall
  /\ metrics = NoMetrics
  /\ published = NotCalled
  /\ outcome = "none"
  /\ newest = 0
  /\ response = NoResponse
  /\ written = <<>>

NoArgs == [fn |-> "none"]
Pending == [done |-> FALSE]

Init ==
  /\ args = NoArgs
  /\ ret = Pending
  /\ InitFlushState

\* A flush event: statsd passes the clock reading it took when the flush
\* interval ended, which is later than the one of the previous event.
Flush ==
  \E builder \in {DecodeBuilder}, constructSender \in Behaviours, publisher \in Behaviours,
     timestamp \in {t \in {now - 1, now} : t > lastTs},
     m \in EventSnapshots :
       /\ constructSender = "throws" => publisher = "ok"
       /\ flush(builder, constructSender, publisher, AllEnabled, 10000, timestamp, m)

Respond ==
  \E cb \in inflight, errors \in Errors :
    \E total \in {0, cb.length + 1} : Complete(cb, errors, total)

Next == Flush \/ Respond \/ status \/ Tick

Spec == Init /\ [][Next]_vars

(***************************************************************************)
(* One flush of a full snapshot, and its callback.                         *)
(***************************************************************************)
FlushOnce ==
  /\ lastTs = 0
  /\ \E builder \in Builders, constructSender \in Behaviours, publisher \in Behaviours,
        publishItems \in PublishItems, m \in SnapshotsOf(MaxPerCat, TimerValues) :
          /\ constructSender = "throws" => publisher = "ok"
          /\ flush(builder, constructSender, publisher, publishItems, 10000, now, m)

NextFlush == FlushOnce \/ Respond

SpecFlush == Init /\ [][NextFlush]_vars

(***************************************************************************)
(* targetDecode on its own.                                                *)
(***************************************************************************)
\* Sequences over chars of length at most n.
StringsUpTo(chars, n) == UNION {[1..k -> chars] : k \in 0..n}

\* Metric names: a namespace word or nothing, then up to MaxTail characters.
DecodeNames ==
  {word \o tail : word \in {<<>>, Logstash, Kamon, Statsd},
                  tail \in StringsUpTo({"a", "_", "."}, MaxTail)} \ {<<>>}

InitDecode ==
  /\ args \in {[fn |-> "targetDecode", stat |-> stat] : stat \in DecodeNames}
  /\ ret = Pending
  /\ InitFlushState

Decode ==
  /\ args.fn = "targetDecode"
  /\ ret = Pending
  /\ ret' = [done |-> TRUE, value |-> targetDecode(args.stat)]
  /\ UNCHANGED <<args, stats, now, lastTs, inflight, call, metrics, published, outcome,
                 newest, response, written>>

SpecDecode == InitDecode /\ [][Decode]_vars

(***************************************************************************)
(* itemsForTimer on its own.                                               *)
(***************************************************************************)
\* Sample arrays: at most MaxSamples positive integers up to MaxVal.
SampleArrays == {Samples(v) : v \in StringsUpTo(1..MaxVal, MaxSamples)}

\* Lists of percentile thresholds, as metrics.pctThreshold.
PctThresholds == {<<>>, <<90>>, <<10>>, <<50, 10>>, <<10, 90>>}

TimerOptions ==
  {NoSettings, Settings(<<>>), Settings([enabled |-> FALSE]),
   Settings([send_mean_percentile |-> FALSE]),
   Settings([send_upper_percentile |-> FALSE]),
   Settings([send_mean_percentile |-> FALSE, send_upper_percentile |-> FALSE]),
   Settings([send_lower |-> FALSE, send_upper |-> FALSE, send_count |-> FALSE])}

InitTimer ==
  /\ args \in {[fn |-> "itemsForTimer", publishOpts |-> o, percentiles |-> p,
                host |-> <<"h">>, key |-> <<"k">>, data |-> d] :
                 o \in TimerOptions, p \in PctThresholds,
                 d \in SampleArrays \cup {NotAnArray}}
  /\ ret = Pending
  /\ InitFlushState

Timer ==
  /\ args.fn = "itemsForTimer"
  /\ ret = Pending
  /\ ret' = [done |-> TRUE,
             value |-> itemsForTimer(args.publishOpts, args.percentiles, args.host,
                                     args.key, args.data)]
  /\ UNCHANGED <<args, stats, now, lastTs, inflight, call, metrics, published, outcome,
                 newest, response, written>>

SpecTimer == InitTimer /\ [][Timer]_vars

(***************************************************************************)
(* Properties of targetDecode (SpecDecode).                                *)
(***************************************************************************)
Decoded == args.fn = "targetDecode" /\ ret.done

\* The name matches grammar 1: a logstash. or kamon. prefix and 3 parts.
IsGrammar1(stat) ==
  /\ StartsWith(stat, Logstash \o Dot) \/ StartsWith(stat, Kamon \o Dot)
  /\ Len(Split(stat, ".")) = 3

\* s with a "." in the place of every "_".
Dotted(s) == [i \in 1..Len(s) |-> IF s[i] = "_" THEN "." ELSE s[i]]

\* The host and key the claim gives for a name of grammar 1.
Grammar1Target(stat) ==
  [ok |-> TRUE,
   host |-> Dotted(Split(stat, ".")[2]),
   key |-> IF StartsWith(stat, Logstash \o Dot) THEN Dotted(Split(stat, ".")[3])
           ELSE Split(stat, ".")[3]]

\* C5 as stated: every name of grammar 1 resolves, to the host and key the
\* namespace's underscore rule gives.
C5_Grammar1NeverFails ==
  (Decoded /\ IsGrammar1(args.stat)) => ret.value = Grammar1Target(args.stat)

\* C5, amended: a name of grammar 1 whose host and key parts are both
\* non-empty resolves to the host and key the namespace's underscore rule
\* gives; when either part is empty the resolution fails.
C5_Grammar1 ==
  (Decoded /\ IsGrammar1(args.stat)) =>
     IF Split(args.stat, ".")[2] # <<>> /\ Split(args.stat, ".")[3] # <<>>
     THEN ret.value = Grammar1Target(args.stat)
     ELSE ~ret.value.ok

C5_Witness ==
  /\ Decoded
  /\ args.stat = Kamon \o <<".", "_", "_", ".", "_">>
  /\ ret.value = Target(<<".", ".">>, <<"_">>)

\* The index of the first "_" of a name that has one.
FirstUnderscore(stat) ==
  CHOOSE i \in 1..Len(stat) : stat[i] = "_" /\ \A j \in 1..(i - 1) : stat[j] # "_"

\* C6: a name of grammar 3 that contains "_", with text on both sides of the
\* first one, resolves to the text before its first "_" as host and all the
\* text after it as key.
C6_SplitAtFirstUnderscore ==
  (/\ Decoded
   /\ ~IsGrammar1(args.stat)
   /\ ~StartsWith(args.stat, Statsd \o Dot)
   /\ \E i \in 1..Len(args.stat) : args.stat[i] = "_"
   /\ 1 < FirstUnderscore(args.stat)
   /\ FirstUnderscore(args.stat) < Len(args.stat))
  => /\ ret.value.ok
     /\ ret.value.host = SubSeq(args.stat, 1, FirstUnderscore(args.stat) - 1)
     /\ ret.value.key = SubSeq(args.stat, FirstUnderscore(args.stat) + 1, Len(args.stat))

(***************************************************************************)
(* Properties of itemsForTimer (SpecTimer).                                *)
(***************************************************************************)
\* A call with every toggle enabled on at least two samples has returned.
TimedAll ==
  /\ args.fn = "itemsForTimer"
  /\ ret.done
  /\ args.publishOpts \in {NoSettings, Settings(<<>>)}
  /\ args.data.array
  /\ Len(args.data.v) >= 2

\* The value of the item emitted under key suffix.
Emitted(suffix) ==
  LET k == args.key \o suffix
  IN (CHOOSE i \in {ret.value.items[j] : j \in 1..Len(ret.value.items)} : i.key = k).value

MeanAt(p) == Emitted(<<"[mean][">> \o toString(p) \o <<"]">>)
UpperAt(p) == Emitted(<<"[upper][">> \o toString(p) \o <<"]">>)

\* x <= y for numbers.
Leq(x, y) == x.t = "num" /\ y.t = "num" /\ x.n * y.d <= y.n * x.d

IsSample(x) == \E i \in 1..Len(args.data.v) : x = Num(args.data.v[i])

InSampleRange(p) ==
  /\ IsSample(UpperAt(p))
  /\ Leq(Emitted(<<"[lower]">>), MeanAt(p))
  /\ Leq(MeanAt(p), UpperAt(p))
  /\ Leq(UpperAt(p), Emitted(<<"[upper]">>))

\* The number of samples at or under threshold p, of n.
NumInThreshold(p, n) == n - ((2 * (100 - p) * n + 100) \div 200)

\* C9 as stated: at every threshold the emitted upper is a sample and
\* lower <= mean <= upper at the threshold <= upper.
C9_PercentilesInRange ==
  TimedAll => \A i \in 1..Len(args.percentiles) : InSampleRange(args.percentiles[i])

\* C9, amended: that holds at every threshold that keeps at least one
\* sample; at a threshold that keeps none, mean and upper are emitted as 0.
C9_PercentilesInRangeOrZero ==
  TimedAll =>
    \A i \in 1..Len(args.percentiles) :
      IF NumInThreshold(args.percentiles[i], Len(args.data.v)) >= 1
      THEN InSampleRange(args.percentiles[i])
      ELSE MeanAt(args.percentiles[i]) = Num(0) /\ UpperAt(args.percentiles[i]) = Num(0)

C9_Witness ==
  /\ TimedAll
  /\ args.data.v = <<3, 1, 2>>
  /\ args.percentiles = <<10, 90>>
  /\ UpperAt(10) = Num(0)
  /\ UpperAt(90) = Num(3)
  /\ MeanAt(90) = [t |-> "num", n |-> 6, d |-> 3]

(***************************************************************************)
(* Properties of one flush (SpecFlush).                                    *)
(***************************************************************************)
\* The points of the metrics of a category that resolve and whose generator
\* returns, in iteration order, for the flush call c.
RECURSIVE PointsOf(_, _, _)
PointsOf(c, category, entries) ==
  IF entries = <<>> THEN <<>>
  ELSE (IF /\ targetBuilder(c.targetBuilder, Head(entries).stat).ok
           /\ ~processor(category, c.publishItems, c.flushInterval, c.metrics.pctThreshold,
                         targetBuilder(c.targetBuilder, Head(entries).stat).host,
                         targetBuilder(c.targetBuilder, Head(entries).stat).key,
                         Head(entries).value).threw
        THEN processor(category, c.publishItems, c.flushInterval, c.metrics.pctThreshold,
                       targetBuilder(c.targetBuilder, Head(entries).stat).host,
                       targetBuilder(c.targetBuilder, Head(entries).stat).key,
                       Head(entries).value).items
        ELSE <<>>)
       \o PointsOf(c, category, Tail(entries))

\* Some metric name of the flush call c fails to resolve.
SomeResolutionFails(c) ==
  \E category \in {"counters", "timers", "gauges"} :
    \E i \in 1..Len(c.metrics[category]) :
      ~targetBuilder(c.targetBuilder, c.metrics[category][i].stat).ok

\* C1: a flush hands the publisher exactly the points of the metrics that
\* resolve, category after category in iteration order, whichever metrics
\* fail to resolve, and sets last_exception to the current time when one did.
C1_FailureIsolation ==
  [][lastTs' # lastTs =>
       /\ published'.called =>
            published'.items = PointsOf(call', "counters", call'.metrics.counters)
                               \o PointsOf(call', "timers", call'.metrics.timers)
                               \o PointsOf(call', "gauges", call'.metrics.gauges)
       /\ SomeResolutionFails(call') => stats'.last_exception = now']_vars

\* A failing counter was iterated before a resolving one, a gauge after them.
C1_Witness ==
  /\ outcome = "returned"
  /\ ~call.targetBuilder.static
  /\ call.publishItems = AllEnabled
  /\ Len(call.metrics.counters) = 2
  /\ call.metrics.counters[1].stat = <<"a", "b">>
  /\ call.metrics.timers = <<>>
  /\ Len(call.metrics.gauges) = 1
  /\ call.metrics.gauges[1].stat = <<"a", "_", "b">>
  /\ Len(published.items) = 3
  /\ stats.last_exception = now
  /\ stats.last_flush = 0

C7_DisabledCategoryIsSilent ==
  published.called =>
    published.items =
      (IF call.publishItems.counters = Settings([enabled |-> FALSE]) THEN <<>>
       ELSE PointsOf(call, "counters", call.metrics.counters))
      \o
      (IF call.publishItems.timers = Settings([enabled |-> FALSE]) THEN <<>>
       ELSE PointsOf(call, "timers", call.metrics.timers))
      \o
      (IF call.publishItems.gauges = Settings([enabled |-> FALSE]) THEN <<>>
       ELSE PointsOf(call, "gauges", call.metrics.gauges))

\* C8: flush leaves every counter, gauge and timer sample sequence of the
\* snapshot as it was, the order of the samples included.
C8_SnapshotReadOnly == outcome # "none" => metrics = call.metrics

(***************************************************************************)
(* Properties of the stats object over flush events (Spec).                *)
(***************************************************************************)
\* C3: a callback that receives errors keeps last_flush and sets
\* last_exception to the current time; one that receives none sets last_flush
\* to its flush's timestamp and keeps last_exception; no other step changes
\* last_flush.
C3_CallbackOutcome ==
  [][IF response' # response
     THEN IF response'.errors = "some"
          THEN stats'.last_flush = stats.last_flush /\ stats'.last_exception = now
          ELSE /\ stats'.last_flush = response'.timestamp
               /\ stats'.last_exception = stats.last_exception
     ELSE stats'.last_flush = stats.last_flush]_vars

\* An error response arrived after an earlier flush had succeeded and a
\* later exception time had been recorded.
C3_Witness ==
  /\ response.errors = "some"
  /\ stats.last_flush = 1
  /\ stats.last_exception = 2
  /\ response.timestamp = 2

\* C4 as stated: only a completion callback changes a field of stats.
C4_OnlyCallbackMutates == [][response' = response => stats' = stats]_vars

\* C4, amended: last_flush and flush_time change only in a completion
\* callback; the synchronous part of flush sets flush_length to the number of
\* points it accumulated and, when a metric failed, last_exception to the
\* current time; status and every other step change no field.
C4_SyncPartMutates ==
  [][response' = response =>
       /\ stats'.last_flush = stats.last_flush
       /\ stats'.flush_time = stats.flush_time
       /\ IF lastTs' # lastTs
          THEN /\ published'.called => stats'.flush_length = Len(published'.items)
               /\ stats'.last_exception \in {stats.last_exception, now}
          ELSE stats' = stats]_vars

\* No callback has run, and flush has set flush_length and last_exception.
C4_Witness ==
  /\ response = NoResponse
  /\ newest = 0
  /\ published.called
  /\ stats.flush_length = 2
  /\ stats.last_exception = 2
  /\ stats.last_flush = 0

\* C10 as stated: last_flush never decreases, in whatever order the
\* callbacks of flushes with increasing timestamps run.
C10_LastFlushMonotone == [][stats'.last_flush >= stats.last_flush]_vars

\* C10, amended: last_flush never decreases in a step other than the
\* callback of a flush started before one whose callback has already run;
\* in particular it never decreases while callbacks run in start order.
C10_MonotoneInStartOrder ==
  [][(response' # response /\ response'.timestamp < newest)
     \/ stats'.last_flush >= stats.last_flush]_vars

\* The callbacks of the flushes at 2 and 3 have run in start order, the
\* first without errors and the second with: last_flush became 2 and stayed.
C10_Witness ==
  /\ stats.last_flush = 2
  /\ response.timestamp = 3
  /\ response.errors = "some"
  /\ newest = 3
  /\ inflight = {}
  /\ stats.flush_time = 1

====
